---------------------------- MODULE Spec2Model ----------------------------
(***************************************************************************)
(* Task Automation Bot: download -> rename -> sort -> report -> notify.    *)
(*                                                                         *)
(* Text (file names, extensions, URLs) is a sequence of one-character      *)
(* strings, so that splitting at dots and slashes and lower-casing are     *)
(* computed the way pathlib / urllib / str.lower compute them.             *)
(* Directory names, log lines and outcomes are plain strings.              *)
(***************************************************************************)
EXTENDS Naturals, Sequences, FiniteSets

VARIABLES
    pc,               \* position of main(): the stage about to run
    settings,         \* state of config/settings.json on disk
    config,           \* the Config returned by load_config (NoConfig before)
    fs,               \* the filesystem: existing path -> size in bytes
    downloaded_files, \* main's local: result of download_files
    renamed_files,    \* main's local: result of rename_files
    sorted_files,     \* main's local: result of sort / the renamed list
    item_log,         \* per stage, one outcome line per processed item
    manifest,         \* rows of the CSV report written so far
    log,              \* main's own log lines
    trace,            \* the stage calls made by main, with their input
    smtp,             \* what send_notification has done
    fn                \* the call under study of a pure helper

vars == <<pc, settings, config, fs, downloaded_files, renamed_files,
          sorted_files, item_log, manifest, log, trace, smtp, fn>>

(***************************************************************************)
(* Bounds                                                                  *)
(***************************************************************************)
MaxUrls == 2
MaxNameLen == 3

(***************************************************************************)
(* Text helpers                                                            *)
(***************************************************************************)
CasePairs ==
    { <<"a","A">>, <<"b","B">>, <<"c","C">>, <<"d","D">>, <<"e","E">>,
      <<"f","F">>, <<"g","G">>, <<"h","H">>, <<"i","I">>, <<"j","J">>,
      <<"k","K">>, <<"l","L">>, <<"m","M">>, <<"n","N">>, <<"o","O">>,
      <<"p","P">>, <<"q","Q">>, <<"r","R">>, <<"s","S">>, <<"t","T">>,
      <<"u","U">>, <<"v","V">>, <<"w","W">>, <<"x","X">>, <<"y","Y">>,
      <<"z","Z">> }

\* str.lower() on one character
LowerChar(c) ==
    IF \E p \in CasePairs : p[2] = c
    THEN (CHOOSE p \in CasePairs : p[2] = c)[1]
    ELSE c

\* str.upper() on one character (used to enumerate case variants of inputs)
UpperChar(c) ==
    IF \E p \in CasePairs : p[1] = c
    THEN (CHOOSE p \in CasePairs : p[1] = c)[2]
    ELSE c

\* str.lower()
Lower(s) == [i \in 1..Len(s) |-> LowerChar(s[i])]

\* 1-based str.rfind: the last index of c in s, 0 when c is not in s
RFind(s, c) ==
    IF \E i \in 1..Len(s) : s[i] = c
    THEN CHOOSE i \in 1..Len(s) : s[i] = c /\ \A j \in (i+1)..Len(s) : s[j] # c
    ELSE 0

\* 1-based str.find
Find(s, c) ==
    IF \E i \in 1..Len(s) : s[i] = c
    THEN CHOOSE i \in 1..Len(s) : s[i] = c /\ \A j \in 1..(i-1) : s[j] # c
    ELSE 0

\* PurePath.suffix: the last dot splits, unless it is first or last
PathSuffix(name) ==
    LET i == RFind(name, ".")
    IN  IF 1 < i /\ i < Len(name) THEN SubSeq(name, i, Len(name)) ELSE << >>

\* PurePath.stem
PathStem(name) ==
    LET i == RFind(name, ".")
    IN  IF 1 < i /\ i < Len(name) THEN SubSeq(name, 1, i - 1) ELSE name

\* the suffix appended to the whole name instead of to the stem
build_new_name_suffix_last(filename, prefix, suffix) ==
    LET stem == PathStem(filename)
        ext  == PathSuffix(filename)
    IN  prefix \o stem \o ext \o suffix

\* FileManager._build_new_name
build_new_name(filename, prefix, suffix) ==
    LET stem == PathStem(filename)
        ext  == PathSuffix(filename)
    IN  prefix \o stem \o suffix \o ext

(***************************************************************************)
(* Classification (FileSortConfig)                                         *)
(***************************************************************************)
extension_map ==
    { << <<".","p","d","f">>,     "documents" >>,
      << <<".","d","o","c">>,     "documents" >>,
      << <<".","d","o","c","x">>, "documents" >>,
      << <<".","t","x","t">>,     "documents" >>,
      << <<".","c","s","v">>,     "data" >>,
      << <<".","x","l","s","x">>, "data" >>,
      << <<".","x","l","s">>,     "data" >>,
      << <<".","j","p","g">>,     "images" >>,
      << <<".","j","p","e","g">>, "images" >>,
      << <<".","p","n","g">>,     "images" >>,
      << <<".","g","i","f">>,     "images" >>,
      << <<".","m","p","4">>,     "videos" >>,
      << <<".","m","k","v">>,     "videos" >>,
      << <<".","m","p","3">>,     "audio" >> }

other_folder == "others"

\* dict.get(key, default) on extension_map
MapGet(key, default) ==
    IF \E e \in extension_map : e[1] = key
    THEN (CHOOSE e \in extension_map : e[1] = key)[2]
    ELSE default

\* sort_files_by_extension: ext = path.suffix.lower(); extension_map.get(ext, other)
TargetFolderNoLower(suffix) == MapGet(suffix, other_folder)

TargetFolder(suffix) == MapGet(Lower(suffix), other_folder)


(***************************************************************************)
(* URLs and paths                                                          *)
(***************************************************************************)
\* the prefix of s before its first character in stops
CutAt(s, stops) ==
    IF \E i \in 1..Len(s) : s[i] \in stops
    THEN LET i == CHOOSE i \in 1..Len(s) :
                     s[i] \in stops /\ \A j \in 1..(i-1) : s[j] \notin stops
         IN  SubSeq(s, 1, i - 1)
    ELSE s

\* the rest of s from its first character in stops on
DropUntil(s, stops) ==
    IF \E i \in 1..Len(s) : s[i] \in stops
    THEN LET i == CHOOSE i \in 1..Len(s) :
                     s[i] \in stops /\ \A j \in 1..(i-1) : s[j] \notin stops
         IN  SubSeq(s, i, Len(s))
    ELSE << >>

\* index of the ":" of the first "://", 0 when there is none
SchemeSep(url) ==
    LET hit(i) == url[i] = ":" /\ url[i+1] = "/" /\ url[i+2] = "/"
    IN  IF \E i \in 1..(Len(url) - 2) : hit(i)
        THEN CHOOSE i \in 1..(Len(url) - 2) : hit(i) /\ \A j \in 1..(i-1) : ~hit(j)
        ELSE 0

\* urlparse(url).path: what follows scheme://netloc, up to ? or #
UrlPath(url) ==
    LET k == SchemeSep(url)
    IN  IF k > 0
        THEN CutAt(DropUntil(SubSeq(url, k + 3, Len(url)), {"/", "?", "#"}),
                   {"?", "#"})
        ELSE CutAt(url, {"?", "#"})

RECURSIVE Segments(_)
\* p.split("/")
Segments(p) ==
    IF p = << >> THEN << >>
    ELSE LET i == Find(p, "/")
         IN  IF i = 0 THEN << p >>
             ELSE << SubSeq(p, 1, i - 1) >> \o Segments(SubSeq(p, i + 1, Len(p)))

IsPathPart(seg) == seg # << >> /\ seg # << "." >>

\* PurePath(p).name: the last component, "" for the root or the empty path
PathName(p) ==
    LET parts == SelectSeq(Segments(p), IsPathPart)
    IN  IF parts = << >> THEN << >> ELSE parts[Len(parts)]

downloaded_file == <<"d","o","w","n","l","o","a","d","e","d","_","f","i","l","e">>

\* the placeholder taken for every last segment without an extension
DownloadFilenameUnlessExtension(url) ==
    LET name == PathName(UrlPath(url))
    IN  IF PathSuffix(name) # << >> THEN name ELSE downloaded_file

\* _download_single: filename = Path(parsed.path).name or "downloaded_file"
DownloadFilename(url) ==
    LET name == PathName(UrlPath(url))
    IN  IF name # << >> THEN name ELSE downloaded_file

\* a path: the name of its parent directory and its file name
MkPath(dir, name) == [dir |-> dir, name |-> name]

\* Path.with_name
WithName(path, name) == MkPath(path.dir, name)

(***************************************************************************)
(* Filesystem                                                              *)
(***************************************************************************)
Exists(f, path) == path \in DOMAIN f

\* open(path, "wb").write(content): creates or overwrites
WriteFile(f, path, size) ==
    [p \in DOMAIN f \cup {path} |-> IF p = path THEN size ELSE f[p]]

\* an external removal of path
RemoveFile(f, path) == [p \in DOMAIN f \ {path} |-> f[p]]

\* os.rename / shutil.move on POSIX: the destination is replaced silently
MoveFile(f, src, dst) ==
    IF src = dst THEN f
    ELSE [p \in (DOMAIN f \ {src}) \cup {dst} |->
            IF p = dst THEN f[src] ELSE f[p]]

(***************************************************************************)
(* Configuration (config.py)                                               *)
(***************************************************************************)
\* EmailConfig()
DefaultEmail ==
    [enabled |-> FALSE, smtp_server |-> "smtp.example.com", smtp_port |-> 587,
     use_tls |-> TRUE, username |-> "", password |-> "", from_address |-> "",
     to_addresses |-> << >>]

\* Config.default()
DefaultConfig ==
    [download_urls |-> << >>, download_dir |-> "downloads",
     working_dir |-> "downloads", reports_dir |-> "reports",
     logs_dir |-> "logs", rename_prefix |-> << >>, rename_suffix |-> << >>,
     sort_by_extension |-> TRUE, email |-> DefaultEmail]

NoConfig == "none"

\* dict.get(key, default) on a parsed JSON object
Get(d, key, default) == IF key \in DOMAIN d THEN d[key] ELSE default

\* load_config, the part after json.load returned an object
ConfigFromDocument(data) ==
    LET email_data == Get(data, "email", [x \in {} |-> x])
        email_cfg ==
            [enabled      |-> Get(email_data, "enabled", FALSE),
             smtp_server  |-> Get(email_data, "smtp_server", "smtp.example.com"),
             smtp_port    |-> Get(email_data, "smtp_port", 587),
             use_tls      |-> Get(email_data, "use_tls", TRUE),
             username     |-> Get(email_data, "username", ""),
             password     |-> Get(email_data, "password", ""),
             from_address |-> Get(email_data, "from_address", ""),
             to_addresses |-> Get(email_data, "to_addresses", << >>)]
    IN  [download_urls     |-> Get(data, "download_urls", << >>),
         download_dir      |-> Get(data, "download_dir", "downloads"),
         working_dir       |-> Get(data, "working_dir", "downloads"),
         reports_dir       |-> Get(data, "reports_dir", "reports"),
         logs_dir          |-> Get(data, "logs_dir", "logs"),
         rename_prefix     |-> Get(data, "rename_prefix", << >>),
         rename_suffix     |-> Get(data, "rename_suffix", << >>),
         sort_by_extension |-> Get(data, "sort_by_extension", TRUE),
         email             |-> email_cfg]

\* load_config: only a missing file and json.JSONDecodeError fall back to the
\* defaults; UnicodeDecodeError (undecodable bytes) and the AttributeError of
\* data.get on a document that is not an object are not caught
load_config(file) ==
    CASE file.kind = "missing"      -> [raised |-> FALSE, config |-> DefaultConfig]
      [] file.kind = "invalid_json" -> [raised |-> FALSE, config |-> DefaultConfig]
      [] file.kind = "undecodable"  -> [raised |-> TRUE,  config |-> NoConfig]
      [] file.kind = "not_object"   -> [raised |-> TRUE,  config |-> NoConfig]
      [] file.kind = "object"       ->
            [raised |-> FALSE, config |-> ConfigFromDocument(file.doc)]

(***************************************************************************)
(* Fetch stage (file_downloader.py)                                        *)
(***************************************************************************)
\* len(response.content): the size of the body the server sends for url
RemoteSize(url) == Len(url)

\* the state a batch stage threads through its loop
StageStart(f) == [fs |-> f, out |-> << >>, log |-> << >>, raised |-> FALSE]

\* _download_single's dest_path
DownloadDest(download_dir, url) == MkPath(download_dir, DownloadFilename(url))

\* one iteration of download_files; e is what the network does for this URL
DownloadStep(download_dir, url, e, st) ==
    IF e = "raise"
    THEN [st EXCEPT !.log = Append(@, "failed")]
    ELSE LET dest == DownloadDest(download_dir, url)
         IN  [st EXCEPT !.fs  = WriteFile(@, dest, RemoteSize(url)),
                        !.out = Append(@, dest),
                        !.log = Append(@, "ok")]

RECURSIVE DownloadLoop(_, _, _, _, _)
DownloadLoop(download_dir, urls, env, i, st) ==
    IF i > Len(urls) \/ st.raised THEN st
    ELSE DownloadLoop(download_dir, urls, env, i + 1,
                      DownloadStep(download_dir, urls[i], env[i], st))

\* FileDownloader.download_files
download_files(download_dir, urls, env, f) ==
    DownloadLoop(download_dir, urls, env, 1, StageStart(f))

(***************************************************************************)
(* Rename and Sort stages (file_manager.py)                                *)
(***************************************************************************)
RenameDest(path, prefix, suffix) ==
    WithName(path, build_new_name(path.name, prefix, suffix))

\* one iteration of rename_files with the try/except around the loop
\* instead of inside it: the first failing rename ends the batch
RenameStepNoTry(path, prefix, suffix, e, st) ==
    LET f1 == IF e = "gone" THEN RemoveFile(st.fs, path) ELSE st.fs
    IN  IF ~Exists(f1, path)
        THEN [st EXCEPT !.fs = f1, !.log = Append(@, "missing")]
        ELSE IF e = "raise"
        THEN [st EXCEPT !.log = Append(@, "failed"), !.raised = TRUE]
        ELSE LET new_path == RenameDest(path, prefix, suffix)
             IN  [st EXCEPT !.fs  = MoveFile(f1, path, new_path),
                            !.out = Append(@, new_path),
                            !.log = Append(@, "ok")]

\* one iteration of rename_files; e is what the environment does to this
\* item: "gone" removes the file before it is looked at, "raise" makes
\* path.rename raise
RenameStep(path, prefix, suffix, e, st) ==
    LET f1 == IF e = "gone" THEN RemoveFile(st.fs, path) ELSE st.fs
    IN  IF ~Exists(f1, path)
        THEN [st EXCEPT !.fs = f1, !.log = Append(@, "missing")]
        ELSE IF e = "raise"
        THEN [st EXCEPT !.log = Append(@, "failed")]
        ELSE LET new_path == RenameDest(path, prefix, suffix)
             IN  [st EXCEPT !.fs  = MoveFile(f1, path, new_path),
                            !.out = Append(@, new_path),
                            !.log = Append(@, "ok")]

RECURSIVE RenameLoop(_, _, _, _, _, _)
RenameLoop(files, prefix, suffix, env, i, st) ==
    IF i > Len(files) \/ st.raised THEN st
    ELSE RenameLoop(files, prefix, suffix, env, i + 1,
                    RenameStep(files[i], prefix, suffix, env[i], st))

\* FileManager.rename_files
rename_files(files, prefix, suffix, env, f) ==
    RenameLoop(files, prefix, suffix, env, 1, StageStart(f))

SortDest(path) == MkPath(TargetFolder(PathSuffix(path.name)), path.name)

\* one iteration of sort_files_by_extension
SortStep(path, e, st) ==
    LET f1 == IF e = "gone" THEN RemoveFile(st.fs, path) ELSE st.fs
    IN  IF ~Exists(f1, path)
        THEN [st EXCEPT !.fs = f1, !.log = Append(@, "missing")]
        ELSE IF e = "raise"
        THEN [st EXCEPT !.log = Append(@, "failed")]
        ELSE LET new_path == SortDest(path)
             IN  [st EXCEPT !.fs  = MoveFile(f1, path, new_path),
                            !.out = Append(@, new_path),
                            !.log = Append(@, "ok")]

RECURSIVE SortLoop(_, _, _, _)
SortLoop(files, env, i, st) ==
    IF i > Len(files) \/ st.raised THEN st
    ELSE SortLoop(files, env, i + 1, SortStep(files[i], env[i], st))

\* FileManager.sort_files_by_extension
sort_files_by_extension(files, env, f) ==
    SortLoop(files, env, 1, StageStart(f))

(***************************************************************************)
(* Report stage (report_generator.py)                                      *)
(***************************************************************************)
Header == << "file_name", "extension", "size_bytes", "folder" >>

report_name == <<"f","i","l","e","_","r","e","p","o","r","t",".","c","s","v">>

\* FileInfo.size_bytes; e is what stat meets: "gone" the file was removed,
\* "denied" stat raises an OSError that is not FileNotFoundError
FileInfoSize(path, e, f) ==
    IF e = "denied" THEN [raised |-> TRUE, value |-> 0]
    ELSE IF e = "gone" \/ ~Exists(f, path) THEN [raised |-> FALSE, value |-> 0]
    ELSE [raised |-> FALSE, value |-> f[path]]

\* [info.name, info.extension, info.size_bytes, info.folder]
ReportRow(path, size) ==
    << path.name, Lower(PathSuffix(path.name)), size, path.dir >>

RECURSIVE ReportLoop(_, _, _, _)
ReportLoop(files, env, i, st) ==
    IF i > Len(files) \/ st.raised THEN st
    ELSE LET size == FileInfoSize(files[i], env[i], st.fs)
             f1   == IF env[i] = "gone" THEN RemoveFile(st.fs, files[i])
                     ELSE st.fs
         IN  ReportLoop(files, env, i + 1,
                 IF size.raised
                 THEN [st EXCEPT !.raised = TRUE]
                 ELSE [st EXCEPT !.fs = f1,
                                 !.rows = Append(@, ReportRow(files[i], size.value))])

\* ReportGenerator.generate_file_report; opened is whether report_path.open
\* succeeds. The rows written before an exception stay in the file.
generate_file_report(reports_dir, files, env, opened, f) ==
    IF ~opened
    THEN [fs |-> f, rows |-> << >>, raised |-> TRUE]
    ELSE LET st == ReportLoop(files, env, 1,
                       [fs |-> f, rows |-> << Header >>, raised |-> FALSE])
         IN  [st EXCEPT !.fs = WriteFile(@, MkPath(reports_dir, report_name),
                                         Len(st.rows))]

(***************************************************************************)
(* Notification stage (notifier.py)                                        *)
(***************************************************************************)
NoSmtp ==
    [composed |-> FALSE, attached |-> FALSE, connected |-> FALSE,
     tls |-> FALSE, logged_in |-> FALSE, sent |-> FALSE, failure_logged |-> FALSE]

\* the try block of send_notification: every exception in it is caught
SmtpSession(email, e, s) ==
    IF e = "connect" THEN [s EXCEPT !.failure_logged = TRUE]
    ELSE LET s1 == [s EXCEPT !.connected = TRUE]
         IN  IF email.use_tls /\ e = "starttls"
             THEN [s1 EXCEPT !.failure_logged = TRUE]
             ELSE LET s2 == [s1 EXCEPT !.tls = email.use_tls]
                      auth == email.username # "" /\ email.password # ""
                  IN  IF auth /\ e = "login"
                      THEN [s2 EXCEPT !.failure_logged = TRUE]
                      ELSE IF e = "send"
                      THEN [s2 EXCEPT !.logged_in = auth, !.failure_logged = TRUE]
                      ELSE [s2 EXCEPT !.logged_in = auth, !.sent = TRUE]

\* send_notification without the check of the recipient list
send_notification_any_recipients(email, attachment, e, f) ==
    IF ~email.enabled THEN [raised |-> FALSE, smtp |-> NoSmtp, fs |-> f]
    ELSE IF e = "compose" THEN [raised |-> TRUE, smtp |-> NoSmtp, fs |-> f]
    ELSE LET f1 == IF e = "attachment_gone" THEN RemoveFile(f, attachment) ELSE f
             s1 == [NoSmtp EXCEPT !.composed = TRUE]
         IN  IF Exists(f1, attachment) /\ e = "attach_read"
             THEN [raised |-> TRUE, smtp |-> s1, fs |-> f1]
             ELSE [raised |-> FALSE, fs |-> f1,
                   smtp |-> SmtpSession(email, e,
                                [s1 EXCEPT !.attached = Exists(f1, attachment)])]

\* EmailNotifier.send_notification; e is the one step that fails, if any:
\* composing the message and reading the attachment are outside the try block
send_notification(email, attachment, e, f) ==
    IF ~email.enabled THEN [raised |-> FALSE, smtp |-> NoSmtp, fs |-> f]
    ELSE IF email.to_addresses = << >>
    THEN [raised |-> FALSE, smtp |-> NoSmtp, fs |-> f]
    ELSE IF e = "compose" THEN [raised |-> TRUE, smtp |-> NoSmtp, fs |-> f]
    ELSE LET f1 == IF e = "attachment_gone" THEN RemoveFile(f, attachment) ELSE f
             s1 == [NoSmtp EXCEPT !.composed = TRUE]
         IN  IF Exists(f1, attachment) /\ e = "attach_read"
             THEN [raised |-> TRUE, smtp |-> s1, fs |-> f1]
             ELSE [raised |-> FALSE, fs |-> f1,
                   smtp |-> SmtpSession(email, e,
                                [s1 EXCEPT !.attached = Exists(f1, attachment)])]

NotifyOutcomes ==
    { "ok", "compose", "attachment_gone", "attach_read", "connect",
      "starttls", "login", "send" }

(***************************************************************************)
(* Inputs: the settings files and the environment's per-item outcomes      *)
(***************************************************************************)
URL_A    == <<"h","t","t","p",":","/","/","x","/","a",".","c","s","v">>
URL_B    == <<"h","t","t","p",":","/","/","x","/","b">>
URL_RA   == <<"h","t","t","p",":","/","/","x","/","r","_","a",".","c","s","v">>
URL_ROOT == <<"h","t","t","p",":","/","/","x","/">>

Urls == { URL_A, URL_B, URL_RA, URL_ROOT }

UrlLists == UNION { [1..n -> Urls] : n \in 0..MaxUrls }

PREFIX_R == <<"r","_">>

EMAIL_OFF ==
    [enabled |-> FALSE, use_tls |-> TRUE, username |-> "bot", password |-> "pw",
     to_addresses |-> << "ops@example.com" >>]

EmailDocs ==
    { EMAIL_OFF,
      [enabled |-> TRUE,  use_tls |-> TRUE,  username |-> "bot", password |-> "pw",
       to_addresses |-> << >>],
      [enabled |-> TRUE,  use_tls |-> TRUE,  username |-> "bot", password |-> "pw",
       to_addresses |-> << "ops@example.com" >>],
      [enabled |-> TRUE,  use_tls |-> FALSE, username |-> "",    password |-> "",
       to_addresses |-> << "ops@example.com" >>] }

\* the settings documents that parse to a JSON object: every URL list with
\* email off, and every email section with no URL and with two URLs
Documents ==
    { [download_urls |-> u, rename_prefix |-> PREFIX_R, sort_by_extension |-> s,
       email |-> EMAIL_OFF] :
        u \in UrlLists, s \in BOOLEAN }
    \cup
    { [download_urls |-> u, rename_prefix |-> PREFIX_R, sort_by_extension |-> s,
       email |-> e] :
        u \in { << >>, << URL_A, URL_B >> }, s \in BOOLEAN, e \in EmailDocs }

\* documents that leave keys out: load_config fills in the defaults
\* (empty prefix and suffix, sort_by_extension = true, email disabled)
PartialDocuments ==
    { [download_urls |-> << URL_A >>],
      [download_urls |-> << URL_A, URL_RA >>, sort_by_extension |-> FALSE] }

SettingsFiles ==
    { [kind |-> k, doc |-> [download_urls |-> << >>]] :
        k \in { "missing", "invalid_json", "undecodable", "not_object" } }
    \cup { [kind |-> "object", doc |-> d] : d \in Documents }
    \cup { [kind |-> "object", doc |-> d] : d \in PartialDocuments }

NoCall == [op |-> "none"]

(***************************************************************************)
(* main() (task_automation_bot.py)                                         *)
(***************************************************************************)
Init ==
    /\ pc = "load_config"
    /\ settings \in SettingsFiles
    /\ config = NoConfig
    /\ fs = [p \in {} |-> 0]
    /\ downloaded_files = << >>
    /\ renamed_files = << >>
    /\ sorted_files = << >>
    /\ item_log = [download |-> << >>, rename |-> << >>, sort |-> << >>]
    /\ manifest = << >>
    /\ log = << >>
    /\ trace = << >>
    /\ smtp = NoSmtp
    /\ fn = NoCall

\* the except block of main: log the fatal error and return
Fatal ==
    /\ log' = Append(log, "fatal error")
    /\ pc' = "exit"

\* config = load_config(); setup_logging(); logger.info("Starting ...").
\* load_config is called outside main's try block.
LoadConfig ==
    /\ pc = "load_config"
    /\ LET r == load_config(settings)
       IN  IF r.raised
           THEN /\ pc' = "crashed"
                /\ UNCHANGED <<config, log>>
           ELSE /\ config' = r.config
                /\ log' = Append(log, "starting")
                /\ pc' = "download"
    /\ UNCHANGED <<settings, fs, downloaded_files, renamed_files, sorted_files,
                   item_log, manifest, trace, smtp, fn>>

\* 1. downloaded_files = downloader.download_files(config.download_urls)
Download ==
    /\ pc = "download"
    /\ \E env \in [1..Len(config.download_urls) -> {"ok", "raise"}] :
         LET r == download_files(config.download_dir, config.download_urls, env, fs)
         IN  /\ trace' = Append(trace, [stage |-> "Fetch", input |-> config.download_urls])
             /\ fs' = r.fs
             /\ item_log' = [item_log EXCEPT !.download = r.log]
             /\ IF r.raised
                THEN Fatal /\ UNCHANGED downloaded_files
                ELSE /\ downloaded_files' = r.out
                     /\ log' = Append(log, "downloaded")
                     /\ pc' = "rename"
    /\ UNCHANGED <<settings, config, renamed_files, sorted_files, manifest, smtp, fn>>

\* 2. renamed_files = file_manager.rename_files(downloaded_files, prefix, suffix)
Rename ==
    /\ pc = "rename"
    /\ \E env \in [1..Len(downloaded_files) -> {"ok", "gone", "raise"}] :
         LET r == rename_files(downloaded_files, config.rename_prefix,
                               config.rename_suffix, env, fs)
         IN  /\ trace' = Append(trace, [stage |-> "Rename", input |-> downloaded_files])
             /\ fs' = r.fs
             /\ item_log' = [item_log EXCEPT !.rename = r.log]
             /\ IF r.raised
                THEN Fatal /\ UNCHANGED renamed_files
                ELSE /\ renamed_files' = r.out
                     /\ log' = Append(log, "renamed")
                     /\ pc' = "sort"
    /\ UNCHANGED <<settings, config, downloaded_files, sorted_files, manifest, smtp, fn>>

\* 3. if config.sort_by_extension: sorted_files = sort_files_by_extension(renamed_files)
Sort ==
    /\ pc = "sort"
    /\ config.sort_by_extension
    /\ \E env \in [1..Len(renamed_files) -> {"ok", "gone", "raise"}] :
         LET r == sort_files_by_extension(renamed_files, env, fs)
         IN  /\ trace' = Append(trace, [stage |-> "Sort", input |-> renamed_files])
             /\ fs' = r.fs
             /\ item_log' = [item_log EXCEPT !.sort = r.log]
             /\ IF r.raised
                THEN Fatal /\ UNCHANGED sorted_files
                ELSE /\ sorted_files' = r.out
                     /\ log' = Append(log, "sorted")
                     /\ pc' = "report"
    /\ UNCHANGED <<settings, config, downloaded_files, renamed_files, manifest, smtp, fn>>

\* 3. else: the sort runs although sort_by_extension is false
SkipSortSortsAnyway ==
    /\ pc = "sort"
    /\ ~config.sort_by_extension
    /\ LET r == sort_files_by_extension(renamed_files,
                    [i \in 1..Len(renamed_files) |-> "ok"], fs)
       IN  /\ fs' = r.fs
           /\ sorted_files' = r.out
    /\ log' = Append(log, "sorted")
    /\ pc' = "report"
    /\ UNCHANGED <<settings, config, downloaded_files, renamed_files, item_log,
                   manifest, trace, smtp, fn>>

\* 3. else: sorted_files = renamed_files
SkipSort ==
    /\ pc = "sort"
    /\ ~config.sort_by_extension
    /\ sorted_files' = renamed_files
    /\ log' = Append(log, "sorted")
    /\ pc' = "report"
    /\ UNCHANGED <<settings, config, fs, downloaded_files, renamed_files, item_log,
                   manifest, trace, smtp, fn>>

\* 4. report_path = report_generator.generate_file_report(sorted_files, report_name)
Report ==
    /\ pc = "report"
    /\ \E env \in [1..Len(sorted_files) -> {"ok", "gone", "denied"}], opened \in BOOLEAN :
         LET r == generate_file_report(config.reports_dir, sorted_files, env, opened, fs)
         IN  /\ trace' = Append(trace, [stage |-> "Report", input |-> sorted_files])
             /\ fs' = r.fs
             /\ manifest' = r.rows
             /\ IF r.raised
                THEN Fatal
                ELSE /\ pc' = "notify"
                     /\ UNCHANGED log
    /\ UNCHANGED <<settings, config, downloaded_files, renamed_files, sorted_files,
                   item_log, smtp, fn>>

\* 5. notifier.send_notification(...); logger.info("... completed successfully.")
Notify ==
    /\ pc = "notify"
    /\ \E e \in NotifyOutcomes :
         LET r == send_notification(config.email,
                                    MkPath(config.reports_dir, report_name), e, fs)
         IN  /\ trace' = Append(trace, [stage |-> "Notify", input |-> << >>])
             /\ fs' = r.fs
             /\ smtp' = r.smtp
             /\ IF r.raised
                THEN Fatal
                ELSE /\ log' = Append(log, "completed successfully")
                     /\ pc' = "exit"
    /\ UNCHANGED <<settings, config, downloaded_files, renamed_files, sorted_files,
                   item_log, manifest, fn>>

Next ==
    \/ LoadConfig
    \/ Download
    \/ Rename
    \/ Sort
    \/ SkipSort
    \/ Report
    \/ Notify

Spec == Init /\ [][Next]_vars

(***************************************************************************)
(* The helpers on their own: _build_new_name and the folder lookup of the  *)
(* Sort stage, applied to inputs drawn from bounded sets                   *)
(***************************************************************************)
NameAlphabet == { "a", "B", "." }

\* file names of 1..MaxNameLen characters; "." and ".." name no file
FileNames ==
    UNION { [1..n -> NameAlphabet] : n \in 1..MaxNameLen }
        \ { << "." >>, << ".", "." >> }

Affixes == { << >>, PREFIX_R, << "." >>, << ".", "b" >> }

NameCalls ==
    { [op |-> "build_new_name", filename |-> f, prefix |-> p, suffix |-> s,
       new_name |-> << >>, done |-> FALSE] :
        f \in FileNames, p \in Affixes, s \in Affixes }

\* the extensions of the default table, and some it does not hold
BaseExtensions ==
    { e[1] : e \in extension_map }
    \cup { << >>, <<".","z","i","p">>, <<".","b">>, <<".","c","s">>,
           <<".","c","s","v","x">>, <<"c","s","v">>, <<".">> }

\* s with any of its letters in upper case
CaseVariants(s) ==
    { [i \in 1..Len(s) |-> IF i \in up THEN UpperChar(s[i]) ELSE s[i]] :
        up \in SUBSET (1..Len(s)) }

ClassifyCalls ==
    UNION { { [op |-> "classify", base |-> b, ext |-> e1, other_ext |-> e2,
               folder |-> "", other |-> "", done |-> FALSE] :
                e1 \in CaseVariants(b), e2 \in CaseVariants(b) } :
            b \in BaseExtensions }

InitHelpers ==
    /\ pc = "helper"
    /\ settings = [kind |-> "missing", doc |-> [download_urls |-> << >>]]
    /\ config = NoConfig
    /\ fs = [p \in {} |-> 0]
    /\ downloaded_files = << >>
    /\ renamed_files = << >>
    /\ sorted_files = << >>
    /\ item_log = [download |-> << >>, rename |-> << >>, sort |-> << >>]
    /\ manifest = << >>
    /\ log = << >>
    /\ trace = << >>
    /\ smtp = NoSmtp
    /\ fn \in NameCalls \cup ClassifyCalls

\* new_name = self._build_new_name(path.name, prefix, suffix)
BuildNewName ==
    /\ pc = "helper"
    /\ fn.op = "build_new_name"
    /\ ~fn.done
    /\ fn' = [fn EXCEPT !.new_name = build_new_name(fn.filename, fn.prefix, fn.suffix),
                        !.done = TRUE]
    /\ UNCHANGED <<pc, settings, config, fs, downloaded_files, renamed_files,
                   sorted_files, item_log, manifest, log, trace, smtp>>

\* target_folder = extension_map.get(path.suffix.lower(), other_folder),
\* for two extensions that differ in letter case only
Classify ==
    /\ pc = "helper"
    /\ fn.op = "classify"
    /\ ~fn.done
    /\ fn' = [fn EXCEPT !.folder = TargetFolder(fn.ext),
                        !.other = TargetFolder(fn.other_ext),
                        !.done = TRUE]
    /\ UNCHANGED <<pc, settings, config, fs, downloaded_files, renamed_files,
                   sorted_files, item_log, manifest, log, trace, smtp>>

NextHelpers ==
    \/ BuildNewName
    \/ Classify

SpecHelpers == InitHelpers /\ [][NextHelpers]_vars

(***************************************************************************)
(* Properties                                                              *)
(***************************************************************************)
Loaded == pc \notin { "load_config", "crashed", "helper" }

StageRan(s) == \E i \in 1..Len(trace) : trace[i].stage = s

StageInput(s) == trace[CHOOSE i \in 1..Len(trace) : trace[i].stage = s].input

Logged(line) == \E i \in 1..Len(log) : log[i] = line

AllOk(lg) == \A i \in 1..Len(lg) : lg[i] = "ok"

Distinct(s) == \A i, j \in 1..Len(s) : i # j => s[i] # s[j]

RECURSIVE OkResults(_, _)
\* the results of the items whose outcome line is "ok", in input order
OkResults(results, lg) ==
    IF results = << >> THEN << >>
    ELSE IF Head(lg) = "ok"
         THEN << Head(results) >> \o OkResults(Tail(results), Tail(lg))
         ELSE OkResults(Tail(results), Tail(lg))

\* a stage that got input in, wrote the outcome lines lg and returned out,
\* where the result of a succeeding item i is results[i]
BatchContract(in, lg, out, results) ==
    /\ Len(lg) = Len(in)
    /\ Len(out) <= Len(in)
    /\ out = OkResults(results, lg)

\* C1: each of the three batch stages returns normally (main logs its
\* count line, never the fatal error), processes every item of its input
\* (one outcome line per item, whatever failed before), and returns the
\* results of exactly the succeeding items in input order, so at most as
\* many as it was given.
C1_BatchStages ==
    /\ StageRan("Fetch") =>
         /\ Logged("downloaded")
         /\ BatchContract(StageInput("Fetch"), item_log.download, downloaded_files,
                [i \in 1..Len(StageInput("Fetch")) |->
                    DownloadDest(config.download_dir, StageInput("Fetch")[i])])
    /\ StageRan("Rename") =>
         /\ Logged("renamed")
         /\ BatchContract(StageInput("Rename"), item_log.rename, renamed_files,
                [i \in 1..Len(StageInput("Rename")) |->
                    RenameDest(StageInput("Rename")[i], config.rename_prefix,
                               config.rename_suffix)])
    /\ StageRan("Sort") =>
         /\ Logged("sorted")
         /\ BatchContract(StageInput("Sort"), item_log.sort, sorted_files,
                [i \in 1..Len(StageInput("Sort")) |-> SortDest(StageInput("Sort")[i])])

\* C1 witness: all three stages have run, and in the Rename stage the
\* first item's rename raised and the second item was still renamed.
C1_Witness ==
    /\ StageRan("Sort")
    /\ item_log.download = << "ok", "ok" >>
    /\ item_log.rename = << "failed", "ok" >>
    /\ item_log.sort = << "missing" >>
    /\ Len(renamed_files) = 1

R_A_CSV == PREFIX_R \o <<"a",".","c","s","v">>

R_B == PREFIX_R \o <<"b">>

Names(files) == [i \in 1..Len(files) |-> files[i].name]

Dirs(files) == [i \in 1..Len(files) |-> files[i].dir]

\* the run of the scenario, up to the written manifest, with nothing failing
Scenario ==
    /\ pc = "notify"
    /\ config.download_urls = << URL_A, URL_B >>
    /\ config.rename_prefix = PREFIX_R
    /\ config.rename_suffix = << >>
    /\ config.sort_by_extension
    /\ item_log.download = << "ok", "ok" >>
    /\ AllOk(item_log.rename)
    /\ AllOk(item_log.sort)

ScenarioTail ==
    /\ Len(downloaded_files) = 2
    /\ Dirs(sorted_files) = << "data", "others" >>
    /\ Len(manifest) = 3
    /\ manifest[2][4] = "data"
    /\ manifest[3][4] = "others"

\* C2 as stated: in the scenario the two files are renamed to r_a.csv and
\* r_downloaded_file, sorted into data/ and others/, and the manifest has
\* two data rows with the folders data and others.
C2_FallbackForB ==
    Scenario =>
        /\ Names(renamed_files) = << R_A_CSV, PREFIX_R \o downloaded_file >>
        /\ ScenarioTail

\* C2 amended: in the scenario the two files are renamed to r_a.csv and r_b
\* (the last path segment b is not empty, so the fallback name is not
\* used), sorted into data/ and others/, and the manifest has two data
\* rows, r_a.csv in data and r_b in others.
C2_Scenario ==
    Scenario =>
        /\ Names(renamed_files) = << R_A_CSV, R_B >>
        /\ ScenarioTail
        /\ manifest[2][1] = R_A_CSV
        /\ manifest[3][1] = R_B

\* C2 witness: the scenario's run has written its manifest.
C2_Witness == Scenario /\ Len(manifest) = 3

\* C3: once the Notify stage was entered with email enabled and a recipient,
\* main ends with "completed successfully" and without the fatal-error line,
\* whatever failed inside send_notification.
C3_NotifyNeverFatal ==
    (StageRan("Notify") /\ config.email.enabled /\ config.email.to_addresses # << >>)
        => (Logged("completed successfully") /\ ~Logged("fatal error"))

\* C4: once the report file could be opened, the report is complete: the
\* stage returned, and the manifest is the header followed by one row per
\* handle in input order, whatever stat met for each file.
C4_ReportNeverFailsPerRow ==
    (StageRan("Report") /\ manifest # << >>) =>
        /\ pc \in { "notify", "exit" }
        /\ StageRan("Notify") \/ ~Logged("fatal error")
        /\ Len(manifest) = Len(sorted_files) + 1
        /\ manifest[1] = Header
        /\ \A i \in 1..Len(sorted_files) : manifest[i + 1][1] = sorted_files[i].name

\* the category the default table gives a lower-case extension
DefaultCategory(e) ==
    CASE e \in { <<".","p","d","f">>, <<".","d","o","c">>,
                 <<".","d","o","c","x">>, <<".","t","x","t">> } -> "documents"
      [] e \in { <<".","c","s","v">>, <<".","x","l","s","x">>,
                 <<".","x","l","s">> }                            -> "data"
      [] e \in { <<".","j","p","g">>, <<".","j","p","e","g">>,
                 <<".","p","n","g">>, <<".","g","i","f">> }       -> "images"
      [] e \in { <<".","m","p","4">>, <<".","m","k","v">> }       -> "videos"
      [] e = <<".","m","p","3">>                                  -> "audio"
      [] OTHER                                                    -> "others"

\* C5: the Sort stage's lookup gives every extension one category: the
\* default table's category of the extension written in lower case, others
\* for the empty and the unknown ones; two extensions that differ in letter
\* case only get the same category.
C5_ClassificationTotalCaseInsensitive ==
    (fn.op = "classify" /\ fn.done) =>
        /\ fn.folder = DefaultCategory(fn.base)
        /\ fn.other = fn.folder
        /\ fn.folder \in { "documents", "data", "images", "videos", "audio", "others" }

\* C5 witness: .JPG and .jpg have been classified.
C5_Witness ==
    /\ fn.op = "classify"
    /\ fn.done
    /\ fn.ext = <<".","J","P","G">>
    /\ fn.other_ext = <<".","j","p","g">>
    /\ fn.folder = "images"

\* C6 as stated: for every file name, prefix and suffix the new name is
\* prefix + stem + suffix + extension and its extension is the extension of
\* the original name.
C6_ExtensionPreserved ==
    (fn.op = "build_new_name" /\ fn.done) =>
        /\ fn.new_name = fn.prefix \o PathStem(fn.filename) \o fn.suffix
                             \o PathSuffix(fn.filename)
        /\ PathSuffix(fn.new_name) = PathSuffix(fn.filename)

\* C6 amended: for every prefix and suffix and every file name that has an
\* extension, the new name is prefix + stem + suffix + extension and its
\* extension is the extension of the original name, in case and content.
C6_ExtensionPreservedWhenPresent ==
    (fn.op = "build_new_name" /\ fn.done /\ PathSuffix(fn.filename) # << >>) =>
        /\ fn.new_name = fn.prefix \o PathStem(fn.filename) \o fn.suffix
                             \o PathSuffix(fn.filename)
        /\ PathSuffix(fn.new_name) = PathSuffix(fn.filename)

\* C6 witness: a.B has been renamed with prefix r_ and suffix .b
C6_Witness ==
    /\ fn.op = "build_new_name"
    /\ fn.done
    /\ fn.filename = << "a", ".", "B" >>
    /\ fn.prefix = PREFIX_R
    /\ fn.suffix = << ".", "b" >>
    /\ fn.new_name = << "r", "_", "a", ".", "b", ".", "B" >>

Stages == [i \in 1..Len(trace) |-> trace[i].stage]

IsPrefix(s, t) == Len(s) <= Len(t) /\ s = SubSeq(t, 1, Len(s))

\* C7: the stage calls of main are a prefix of Fetch, Rename, Sort (only
\* when sort_by_extension is true), Report, Notify; each stage gets the list
\* the stage before it returned; with sort_by_extension false no file is
\* moved into a category folder and Report gets the list Rename returned.
C7_StageOrder ==
    Loaded =>
        /\ IsPrefix(Stages,
                IF config.sort_by_extension
                THEN << "Fetch", "Rename", "Sort", "Report", "Notify" >>
                ELSE << "Fetch", "Rename", "Report", "Notify" >>)
        /\ StageRan("Fetch") => StageInput("Fetch") = config.download_urls
        /\ StageRan("Rename") => StageInput("Rename") = downloaded_files
        /\ StageRan("Sort") => StageInput("Sort") = renamed_files
        /\ StageRan("Report") => StageInput("Report") = sorted_files
        /\ (StageRan("Report") /\ ~config.sort_by_extension) =>
              /\ StageInput("Report") = renamed_files
              /\ item_log.sort = << >>
        /\ ~config.sort_by_extension =>
              \A p \in DOMAIN fs : p.dir \in { config.working_dir, config.reports_dir }

\* C7 witness: a run with sort_by_extension false has gone through Fetch,
\* Rename, Report and Notify with a renamed file.
C7_Witness ==
    /\ pc = "exit"
    /\ ~config.sort_by_extension
    /\ Stages = << "Fetch", "Rename", "Report", "Notify" >>
    /\ Len(renamed_files) = 2

\* C8: with email disabled or no recipient, send_notification composes no
\* message, reads no attachment and opens no SMTP connection, and main ends
\* with "completed successfully".
C8_NotifyNoOp ==
    (StageRan("Notify") /\ (~config.email.enabled \/ config.email.to_addresses = << >>)) =>
        /\ smtp = NoSmtp
        /\ pc = "exit"
        /\ Logged("completed successfully")
        /\ ~Logged("fatal error")

\* C8 witness: the Notify stage has run with email enabled and no recipient.
C8_Witness ==
    /\ StageRan("Notify")
    /\ config.email.enabled
    /\ config.email.to_addresses = << >>

\* C9: load_config never raises, and returns the defaults whenever the
\* settings file is missing or malformed.
C9_ConfigNeverFatal ==
    /\ pc # "crashed"
    /\ (Loaded /\ settings.kind # "object") => config = DefaultConfig

\* C10: a Rename stage whose input files are pairwise distinct and all
\* exist, and in which every item is renamed, returns pairwise distinct
\* paths of existing files and leaves the number of files unchanged.
C10_RenameLosesNoFile ==
    [][ ( /\ pc = "rename"
          /\ pc' = "sort"
          /\ Distinct(downloaded_files)
          /\ \A i \in 1..Len(downloaded_files) : Exists(fs, downloaded_files[i])
          /\ Len(item_log'.rename) = Len(downloaded_files)
          /\ AllOk(item_log'.rename) )
        => ( /\ Distinct(renamed_files')
             /\ \A i \in 1..Len(renamed_files') : Exists(fs', renamed_files'[i])
             /\ Cardinality(DOMAIN fs') = Cardinality(DOMAIN fs) ) ]_vars

=============================================================================
